---- MODULE Spec2Model ----
(***************************************************************************)
(* The reference-ownership wrapper `pyptr` of src/ppptr.rs over a foreign  *)
(* reference-counted object runtime.                                       *)
(*                                                                         *)
(* The state is the foreign heap (refcount, dynamic type and allocation    *)
(* status of each object), the pending-error slot, the pyptr instances     *)
(* made so far, and the raw owned pointers the caller holds after          *)
(* into_ptr.  Every function of the source is an operator from a machine   *)
(* state to the SET of machine states it may return (one element, unless   *)
(* the code has undefined behaviour); every action applies one function.   *)
(***************************************************************************)
EXTENDS Integers, FiniteSets, Sequences, TLC

\* ---------------------------------------------------------------- bounds
\* foreign objects ever allocated
MaxObjs == 1
\* pyptr instances alive at once
MaxWrappers == 2
\* cap on ob_refcnt: no claim is added to an object that has this many
MaxRef == 2
\* longest byte buffer handed to UnicodeDecodeError::new_utf8
MaxLen == 3

\* ------------------------------------------------------------- constants
NULL == 0
Objs == 1..MaxObjs
Wids == 1..MaxWrappers

\* "str" is a subtype of "object"; an object of dynamic type "object" is no "str".
Types == {"object", "str"}
\* what a failing foreign call may leave in the pending-error slot
Errs == {"KeyError", "ValueError"}

VARIABLES
    refcnt,            \* [Objs -> Nat]   ob_refcnt of each foreign object
    status,            \* [Objs -> {"unalloc","live","freed"}]
    otype,             \* [Objs -> Types \cup {"none"}]  dynamic type
    raw,               \* [Objs -> Nat]   owned raw pointers in the caller's hands
    wr,                \* [Wids -> wrapper record]  the pyptr instances
    pending,           \* the pending-error slot
    aborted,           \* "no", or how the process ended
    last,              \* the last call: its input, its result and its effects
    scen,              \* progress of the two-wrapper scenario (see ScenNext)
    utf8               \* a call of UnicodeDecodeError::new_utf8: arguments and result

vars == <<refcnt, status, otype, raw, wr, pending, aborted, last, scen, utf8>>

EmptySlot == [type |-> "empty", value |-> NULL]

\* A pyptr instance: the pointer it wraps (self.1), whether it is live, dropped
\* or forgotten, and how often its drop has decremented.
Unused == [state |-> "unused", ptr |-> NULL, decs |-> 0]

\* ob_refcnt as the caller sees it before a call (0 for the null pointer)
RcOf(rc, p) == IF p \in Objs THEN rc[p] ELSE 0

\* ------------------------------------------------- the machine state record
\* The current state with the per-call fields cleared.
Begin ==
    [refcnt |-> refcnt, status |-> status, otype |-> otype, raw |-> raw, wr |-> wr,
     pending |-> pending, aborted |-> "no",
     res |-> "none", w |-> 0, err |-> "none", etype |-> "none",
     slotRead |-> FALSE, typeChecked |-> FALSE, incs |-> 0, decs |-> 0,
     out |-> NULL, outType |-> "none", val |-> 0, claimMoved |-> FALSE, ub |-> FALSE]

\* The value a function returns; a call that aborted returns nothing.
Ret(s, res) == IF s.aborted # "no" THEN s ELSE [s EXCEPT !.res = res]

Abort(s, how) == [s EXCEPT !.aborted = how, !.res = "Abort"]

\* The call has executed undefined behaviour.
UB(s) == [s EXCEPT !.ub = TRUE]

\* ----------------------------------------------- foreign runtime interface
Py_REFCNT(s, p) == s.refcnt[p]

\* Py_INCREF and Py_DECREF write ob_refcnt through the pointer.  On the null
\* pointer that is undefined behaviour: the call faults, or writes to no object.
Py_INCREF(s, p) ==
    IF p = NULL THEN {Abort(UB(s), "segv"), UB(s)}
    ELSE {[s EXCEPT !.refcnt[p] = @ + 1, !.incs = @ + 1]}

\* the object is deallocated when its count reaches zero
Py_DECREF(s, p) ==
    IF p = NULL THEN {Abort(UB(s), "segv"), UB(s)}
    ELSE {[s EXCEPT !.refcnt[p] = @ - 1, !.decs = @ + 1,
                    !.status[p] = IF s.refcnt[p] = 1 THEN "freed" ELSE @,
                    !.otype[p] = IF s.refcnt[p] = 1 THEN "none" ELSE @]}

IsSubtype(a, b) == a = b \/ b = "object"

\* PyObject_TypeCheck reads ob_type through the pointer.  On the null pointer
\* that read is undefined behaviour: the call faults, or yields either answer.
PyObject_TypeCheck(s, p, T) ==
    IF p = NULL THEN {"segv", "match", "mismatch"}
    ELSE IF IsSubtype(s.otype[p], T) THEN {"match"} ELSE {"mismatch"}

\* PyErr::fetch: read and clear the pending-error slot; an empty slot under a
\* null surfaces as a generic runtime error.  The claim the slot held on the
\* error's value is the caller's, with the error value it now owns.
PyErr_fetch(s) ==
    LET value == s.pending.value IN
    [s EXCEPT !.slotRead = TRUE, !.err = "PyErr",
              !.etype = IF s.pending.type = "empty" THEN "SystemError" ELSE s.pending.type,
              !.out = value,
              !.raw = IF value = NULL THEN s.raw ELSE [s.raw EXCEPT ![value] = @ + 1],
              !.pending = EmptySlot]

\* The foreign runtime gives up a claim of its own on p (no Py_DECREF of the host).
Release(s, p) ==
    IF p = NULL THEN s
    ELSE [s EXCEPT !.refcnt[p] = @ - 1,
                   !.status[p] = IF s.refcnt[p] = 1 THEN "freed" ELSE @,
                   !.otype[p] = IF s.refcnt[p] = 1 THEN "none" ELSE @]

\* PyErr_SetObject: the slot takes a claim on the value and gives up the one on
\* the value it held before.
PyErr_SetObject(s, type, value) ==
    LET t == IF value = NULL THEN s ELSE [s EXCEPT !.refcnt[value] = @ + 1]
    IN  [Release(t, s.pending.value) EXCEPT !.pending = [type |-> type, value |-> value]]

\* err::panic_after_error: consult the pending-error slot, then abort.
panic_after_error(s) == Abort([s EXCEPT !.slotRead = TRUE], "panic_after_error")

\* PyDowncastError(py, None)
PyDowncastError(s) == [s EXCEPT !.err = "PyDowncastError"]

\* From<PyDowncastError> for PyErr: a type error built locally, slot untouched
DowncastInto(s) ==
    IF s.err = "PyDowncastError" THEN [s EXCEPT !.err = "PyErr", !.etype = "TypeError"]
    ELSE s

\* ------------------------------------------------------------------ pyptr
\* the slot a new instance takes: the first that holds no live instance
FreeW(s) == {v \in Wids : s.wr[v].state # "live"}
NextW(s) == CHOOSE v \in FreeW(s) : \A u \in FreeW(s) : v <= u

CanWrap == FreeW(Begin) # {}

\* The tuple-struct constructor pyptr(py, ptr): a new live instance.
pyptr(s, p) ==
    IF s.aborted # "no" THEN s ELSE
    [s EXCEPT !.wr[NextW(s)] = [Unused EXCEPT !.state = "live", !.ptr = p],
              !.w = NextW(s), !.res = "pyptr"]

\* An owned raw pointer handed to a wrapper is no longer the caller's to release.
MoveClaim(s, p) ==
    IF p \in Objs /\ s.raw[p] > 0
    THEN [s EXCEPT !.raw[p] = @ - 1, !.claimMoved = TRUE]
    ELSE s

\* debug_assert! panics in a build that keeps debug assertions and is absent
\* from one that does not: a failing assertion has both outcomes.
debug_assert(s, ok) == IF ok THEN {} ELSE {Abort(s, "debug_assert")}

\* faulty variant: takes a claim of its own, as from_borrowed_ptr does
from_owned_ptr_increfs(s, p) ==
    debug_assert(s, p # NULL /\ Py_REFCNT(s, p) > 0)
    \cup {pyptr(x, p) : x \in Py_INCREF(MoveClaim(s, p), p)}

from_owned_ptr(s, p) ==
    debug_assert(s, p # NULL /\ Py_REFCNT(s, p) > 0)
    \cup {pyptr(MoveClaim(s, p), p)}

\* faulty variant: the null test is missing
from_owned_ptr_or_panic_unchecked(s, p) == from_owned_ptr(s, p)

from_owned_ptr_or_panic(s, p) ==
    IF p = NULL THEN {panic_after_error(s)}
    ELSE from_owned_ptr(s, p)

\* faulty variant: reads the pending error without clearing the slot
from_owned_ptr_or_err_keeps_slot(s, p) ==
    IF p = NULL THEN {Ret([PyErr_fetch(s) EXCEPT !.pending = s.pending], "Err")}
    ELSE {Ret(x, "Ok") : x \in from_owned_ptr(s, p)}

from_owned_ptr_or_err(s, p) ==
    IF p = NULL THEN {Ret(PyErr_fetch(s), "Err")}
    ELSE {Ret(x, "Ok") : x \in from_owned_ptr(s, p)}

\* faulty variant: increments on the non-null path, as the borrowed variant does
from_owned_ptr_or_opt_increfs(s, p) ==
    IF p = NULL THEN {Ret(s, "None")}
    ELSE {Ret(pyptr(x, p), "Some") : x \in Py_INCREF(MoveClaim(s, p), p)}

from_owned_ptr_or_opt(s, p) ==
    IF p = NULL THEN {Ret(s, "None")}
    ELSE {Ret(x, "Some") : x \in from_owned_ptr(s, p)}

\* faulty variant: forgets the Py_INCREF
from_borrowed_ptr_no_incref(s, p) ==
    debug_assert(s, p # NULL /\ Py_REFCNT(s, p) > 0)
    \cup {pyptr(s, p)}

from_borrowed_ptr(s, p) ==
    debug_assert(s, p # NULL /\ Py_REFCNT(s, p) > 0)
    \cup {pyptr(x, p) : x \in Py_INCREF(s, p)}

\* faulty variant: wraps the borrowed pointer without taking a claim
from_borrowed_ptr_or_opt_no_incref(s, p) ==
    IF p = NULL THEN {Ret(s, "None")}
    ELSE debug_assert(s, Py_REFCNT(s, p) > 0) \cup {Ret(pyptr(s, p), "Some")}

from_borrowed_ptr_or_opt(s, p) ==
    IF p = NULL THEN {Ret(s, "None")}
    ELSE debug_assert(s, Py_REFCNT(s, p) > 0)
         \cup {Ret(pyptr(x, p), "Some") : x \in Py_INCREF(s, p)}

\* the state after PyObject_TypeCheck(ptr, T::type_object()) has run on p
Checked(s, p) == [s EXCEPT !.typeChecked = TRUE, !.ub = @ \/ p = NULL]

\* faulty variant: on a mismatch falls back to the pending-error slot
cast_from_owned_ptr_fetches(s, T, p) ==
    UNION { CASE c = "segv"  -> {Abort(Checked(s, p), "segv")}
              [] c = "match" -> {Ret(x, "Ok") : x \in from_owned_ptr(Checked(s, p), p)}
              [] OTHER       -> {Ret(PyErr_fetch(Checked(s, p)), "Err")}
            : c \in PyObject_TypeCheck(s, p, T) }

\* faulty variant: wraps the checked pointer as a borrowed one
cast_from_owned_ptr_borrows(s, T, p) ==
    UNION { CASE c = "segv"  -> {Abort(Checked(s, p), "segv")}
              [] c = "match" -> {Ret(pyptr(x, p), "Ok") : x \in Py_INCREF(Checked(s, p), p)}
              [] OTHER       -> {Ret(PyDowncastError(Checked(s, p)), "Err")}
            : c \in PyObject_TypeCheck(s, p, T) }

\* One outcome set per answer of the type check.
cast_from_owned_ptr(s, T, p) ==
    UNION { CASE c = "segv"  -> {Abort(Checked(s, p), "segv")}
              [] c = "match" -> {Ret(x, "Ok") :
                                   x \in from_owned_ptr(Checked(s, p), p)}
              [] OTHER       -> {Ret(PyDowncastError(Checked(s, p)), "Err")}
            : c \in PyObject_TypeCheck(s, p, T) }

cast_from_borrowed_ptr(s, T, p) ==
    UNION { CASE c = "segv"  -> {Abort(Checked(s, p), "segv")}
              [] c = "match" -> {Ret(x, "Ok") :
                                   x \in from_borrowed_ptr(Checked(s, p), p)}
              [] OTHER       -> {Ret(PyDowncastError(Checked(s, p)), "Err")}
            : c \in PyObject_TypeCheck(s, p, T) }

cast_from_owned_ptr_or_panic(s, T, p) ==
    UNION { CASE c = "segv"  -> {Abort(Checked(s, p), "segv")}
              [] c = "match" -> from_owned_ptr(Checked(s, p), p)
              [] OTHER       -> {panic_after_error(Checked(s, p))}
            : c \in PyObject_TypeCheck(s, p, T) }

\* faulty variant: clears the pending-error slot on every path
cast_from_owned_ptr_or_err_clears(s, T, p) ==
    IF p = NULL THEN {Ret(PyErr_fetch(s), "Err")}
    ELSE {[DowncastInto(x) EXCEPT !.pending = EmptySlot] :
             x \in cast_from_owned_ptr(s, T, p)}

\* faulty variant: reports a type mismatch from the pending-error slot
cast_from_owned_ptr_or_err_conflates(s, T, p) ==
    IF p = NULL THEN {Ret(PyErr_fetch(s), "Err")}
    ELSE {IF x.err = "PyDowncastError" THEN Ret(PyErr_fetch(x), "Err") ELSE x :
             x \in cast_from_owned_ptr(s, T, p)}

cast_from_owned_ptr_or_err(s, T, p) ==
    IF p = NULL THEN {Ret(PyErr_fetch(s), "Err")}
    ELSE {DowncastInto(x) : x \in cast_from_owned_ptr(s, T, p)}

\* ToPythonPointer::as_ptr
as_ptr(s, v) == s.wr[v].ptr

\* faulty variant: counts the live instances instead of reading ob_refcnt
get_refcnt_counts_instances(s, v) ==
    Cardinality({u \in Wids : s.wr[u].state = "live" /\ s.wr[u].ptr = s.wr[v].ptr})

\* pyptr::get_refcnt: Py_REFCNT(self.1) as usize
get_refcnt(s, v) == Py_REFCNT(s, s.wr[v].ptr)

\* pyptr::token: self.0, the marker that the interpreter lock is held
token(s, v) == "Python"

\* faulty variant: the forget is missing: the instance's drop runs as it is moved out
into_ptr_releases(s, v) ==
    {[x EXCEPT !.wr[v].state = "forgotten", !.out = s.wr[v].ptr, !.res = "ptr"] :
        x \in Py_DECREF(s, s.wr[v].ptr)}

\* IntoPythonPointer::into_ptr: the instance is forgotten, its drop never runs,
\* and the claim it held is the caller's again.
into_ptr(s, v) ==
    LET ptr == s.wr[v].ptr IN
    {[s EXCEPT !.wr[v].state = "forgotten", !.out = ptr, !.res = "ptr",
               !.raw = IF ptr \in Objs THEN [s.raw EXCEPT ![ptr] = @ + 1] ELSE s.raw]}

\* faulty variant: releases two claims
drop_twice(s, v) ==
    {[y EXCEPT !.wr[v].state = "dropped", !.wr[v].decs = @ + 1, !.res = "void"] :
        y \in UNION {Py_DECREF(x, s.wr[v].ptr) : x \in Py_DECREF(s, s.wr[v].ptr)}}

\* Drop::drop: the println reads ob_refcnt through the pointer, then Py_DECREF.
drop(s, v) ==
    {IF x.aborted # "no" THEN x
     ELSE [x EXCEPT !.wr[v].state = "dropped", !.wr[v].decs = @ + 1, !.res = "void"] :
         x \in Py_DECREF(s, s.wr[v].ptr)}

\* PyObjectAlloc::alloc: a fresh object of type T with refcount 1, or an error.
\* Addresses are never reused: a freed object stays freed.
alloc(s, T) ==
    LET free == {o \in Objs : s.status[o] = "unalloc"}
        o == CHOOSE x \in free : \A y \in free : x <= y
    IN  {[s EXCEPT !.err = "PyErr", !.etype = "MemoryError", !.res = "Err"]}
        \cup (IF free = {} THEN {}
              ELSE {[s EXCEPT !.status[o] = "live", !.otype[o] = T,
                              !.refcnt[o] = 1, !.out = o]})

\* pyptr::new: try!(alloc), then wrap the pointer as it is.
new(s, T) ==
    {IF x.res = "Err" THEN x ELSE Ret(pyptr(x, x.out), "Ok") : x \in alloc(s, T)}

\* ------------------------------------------------- Debug and Display
\* The object a represent or stringify call has just made is known to the call
\* alone: it lives at an address of its own for the duration of the call.
Tmp == MaxObjs + 1

WithTmp(s, T) ==
    [s EXCEPT !.refcnt = [o \in Objs \cup {Tmp} |-> IF o = Tmp THEN 1 ELSE s.refcnt[o]],
              !.status = [o \in Objs \cup {Tmp} |-> IF o = Tmp THEN "live" ELSE s.status[o]],
              !.otype = [o \in Objs \cup {Tmp} |-> IF o = Tmp THEN T ELSE s.otype[o]]]

\* The call returns: an object it made and did not release is lost to the program.
WithoutTmp(s) ==
    [s EXCEPT !.refcnt = [o \in Objs |-> s.refcnt[o]],
              !.status = [o \in Objs |-> s.status[o]],
              !.otype = [o \in Objs |-> s.otype[o]]]

\* The foreign call fails: null, and an error in the pending-error slot.
ReprFails(s) ==
    {[PyErr_SetObject(s, e, NULL) EXCEPT !.out = NULL] : e \in Errs}

\* The foreign call returns an owned pointer to an object it has made.
ReprMakes(s) ==
    {[WithTmp(s, T) EXCEPT !.out = Tmp, !.outType = T] : T \in Types}

\* ffi::PyObject_Repr: a nullable owned pointer
PyObject_Repr(s, p) == ReprFails(s) \cup ReprMakes(s)

\* ffi::PyObject_Str: as PyObject_Repr, and the string of a text object is the
\* object itself, returned with a claim added.
PyObject_Str(s, p) ==
    ReprFails(s) \cup ReprMakes(s)
    \cup (IF s.otype[p] = "str" /\ s.refcnt[p] < MaxRef
          THEN {[s EXCEPT !.refcnt[p] = @ + 1, !.raw[p] = @ + 1,
                          !.out = p, !.outType = "str"]}
          ELSE {})

\* PyString::downcast_from_owned_ptr: the typed owned-or-error cast to text
downcast_from_owned_ptr(s, p) == cast_from_owned_ptr_or_err(s, "str", p)

\* Formatter::write_str may fail; either way `repr` goes out of scope after it.
write_str(s) == {Ret(s, "Ok"), Ret([s EXCEPT !.err = "fmt::Error"], "Err")}

\* the fmt body after the foreign call: map_err(|_| fmt::Error)?, write_str,
\* and the drop of `repr` at the end of the block
fmt(r) ==
    UNION { IF x.res = "Err"
            THEN {WithoutTmp(Ret([x EXCEPT !.err = "fmt::Error", !.etype = "none"], "Err"))}
            ELSE {WithoutTmp([z EXCEPT !.res = y.res, !.w = 0]) :
                     <<y, z>> \in UNION {{y} \X drop(y, x.w) : y \in write_str(x)}}
          : x \in downcast_from_owned_ptr(r, r.out) }

\* faulty variant: `repr` is forgotten instead of dropped
fmt_Display_forgets(s, v) ==
    UNION { {WithoutTmp(x) : x \in
                UNION {IF x.res = "Err"
                       THEN {Ret([x EXCEPT !.err = "fmt::Error", !.etype = "none"], "Err")}
                       ELSE {[y EXCEPT !.wr[x.w].state = "forgotten", !.w = 0] :
                                y \in write_str(x)}
                       : x \in downcast_from_owned_ptr(r, r.out)}}
          : r \in PyObject_Str(s, s.wr[v].ptr) }

\* impl Debug for pyptr
fmt_Debug(s, v) == UNION {fmt(r) : r \in PyObject_Repr(s, s.wr[v].ptr)}

\* impl Display for pyptr
fmt_Display(s, v) == UNION {fmt(r) : r \in PyObject_Str(s, s.wr[v].ptr)}

\* --------------------------------------------------------- objects/exc.rs
\* the bytes of a buffer: 'a', a two-byte lead, and a byte no UTF-8 text holds
Bytes == {97, 195, 255}
Buffers == UNION {[1..n -> Bytes] : n \in 1..MaxLen}

NoCall == [encoding |-> "none", object |-> <<>>, length |-> 0,
           start |-> 0, end |-> 0, reason |-> "none"]
Idle == [stage |-> "idle", input |-> <<>>, err |-> [valid_up_to |-> 0],
         call |-> NoCall, res |-> "none"]

\* Utf8Error::valid_up_to
valid_up_to(err) == err.valid_up_to

\* start .. end, a Range<usize>
Range(start, end) == [start |-> start, end |-> end]

\* ffi::PyUnicodeDecodeError_Create returns the new exception object, or null
PyUnicodeDecodeError_Create == {"object", "null"}

\* UnicodeDecodeError::new: the arguments go to PyUnicodeDecodeError_Create as
\* they are (the `as Py_ssize_t` casts keep every value below 2^63), and
\* from_owned_ptr_or_err turns the pointer into Ok or Err.
UnicodeDecodeError_new(encoding, input, range, reason) ==
    {[call |-> [encoding |-> encoding, object |-> input, length |-> Len(input),
                start |-> range.start, end |-> range.end, reason |-> reason],
      res |-> IF ptr = "null" THEN "Err" ELSE "Ok"] :
        ptr \in PyUnicodeDecodeError_Create}

\* faulty variant: the range runs to the end of the buffer
new_utf8_to_end(input, err) ==
    LET pos == valid_up_to(err) IN
    UnicodeDecodeError_new("utf-8", input, Range(pos, Len(input)), "invalid utf-8")

\* UnicodeDecodeError::new_utf8
new_utf8(input, err) ==
    LET pos == valid_up_to(err) IN
    UnicodeDecodeError_new("utf-8", input, Range(pos, pos + 1), "invalid utf-8")

\* faulty variant: raises the condition without its value
stop_iteration_no_value(s, v) ==
    drop(PyErr_SetObject(s, "StopIteration", NULL), v)

\* StopIteration::stop_iteration: PyErr_SetObject(PyExc_StopIteration, args),
\* then `args`, moved into the call and parked, is dropped.
stop_iteration(s, v) ==
    drop(PyErr_SetObject(s, "StopIteration", as_ptr(s, v)), v)

\* ------------------------------------------------------------- the actions
\* raw pointers the caller may pass: the owned ones it holds, the live objects
\* it may borrow, and null where a foreign call reported failure
OwnedPtrs == {o \in Objs : raw[o] > 0}
LivePtrs == {o \in Objs : status[o] = "live"}
LiveWrappers == {v \in Wids : wr[v].state = "live"}

CanIncref(p) == refcnt[p] < MaxRef

\* The scenario monitor: an object at refcount 1 is wrapped by from_owned_ptr
\* (step 1), then by from_borrowed_ptr (step 2), the borrowed instance is dropped
\* (step 3), then the owned one (step 4).  Any other call starts over.
NoScen == [step |-> 0, obj |-> NULL, owned |-> 0, borrowed |-> 0]

ScenNext(op, p, self, o) ==
    IF op = "from_owned_ptr" /\ o.w # 0 /\ RcOf(refcnt, p) = 1
    THEN [step |-> 1, obj |-> p, owned |-> o.w, borrowed |-> 0]
    ELSE IF scen.step = 1 /\ op = "from_borrowed_ptr" /\ p = scen.obj /\ o.w # 0
    THEN [scen EXCEPT !.step = 2, !.borrowed = o.w]
    ELSE IF scen.step = 2 /\ op = "drop" /\ self = scen.borrowed
    THEN [scen EXCEPT !.step = 3]
    ELSE IF scen.step = 3 /\ op = "drop" /\ self = scen.owned
    THEN [scen EXCEPT !.step = 4]
    ELSE NoScen

\* What the call before this one was, when this call continues it: a drop of
\* the instance a plain constructor has just made, or a from_owned_ptr of the
\* pointer into_ptr has just handed out.  rc is the refcount before that call.
SeqOf(op, p, self) ==
    IF \/ /\ op = "drop" /\ last.op \in {"from_owned_ptr", "from_borrowed_ptr"}
          /\ last.w = self /\ self # 0
       \/ /\ op = "from_owned_ptr" /\ last.op = "into_ptr"
          /\ last.out = p /\ p # NULL
    THEN [op |-> last.op, rc |-> last.rcBefore]
    ELSE [op |-> "none", rc |-> 0]

\* Take outcome o of call op(p) as the next state.  self is the instance the
\* call was made on (0 for a constructor).  The record of a dropped or
\* forgotten instance is kept for one step only.
Commit(op, p, T, self, o) ==
    /\ refcnt' = o.refcnt
    /\ status' = o.status
    /\ otype' = o.otype
    /\ raw' = o.raw
    /\ pending' = o.pending
    /\ aborted' = o.aborted
    /\ wr' = [v \in Wids |->
                IF v # self /\ v # o.w /\ o.wr[v].state # "live"
                THEN Unused ELSE o.wr[v]]
    /\ last' = [op |-> op, ptr |-> p, T |-> T,
                w |-> IF self # 0 THEN self ELSE o.w,
                res |-> o.res, err |-> o.err, etype |-> o.etype,
                slotRead |-> o.slotRead, typeChecked |-> o.typeChecked,
                incs |-> o.incs, decs |-> o.decs, out |-> o.out,
                outType |-> o.outType, val |-> o.val,
                claimMoved |-> o.claimMoved, ub |-> o.ub,
                rcBefore |-> RcOf(refcnt, p), pendBefore |-> pending,
                seq |-> SeqOf(op, p, self)]
    /\ scen' = ScenNext(op, p, self, o)
    /\ utf8' = utf8

\* A call is made while the process runs.  A run that has executed undefined
\* behaviour is followed no further: the source constrains nothing after it.
Call(op, p, T, self, outs) ==
    /\ aborted = "no"
    /\ ~last.ub
    /\ \E o \in outs : Commit(op, p, T, self, o)

Do_new ==
    /\ CanWrap
    /\ \E T \in Types : Call("new", NULL, T, 0, new(Begin, T))

Do_from_owned_ptr ==
    /\ CanWrap
    /\ \E p \in OwnedPtrs :
          Call("from_owned_ptr", p, "none", 0, from_owned_ptr(Begin, p))

Do_from_owned_ptr_or_panic ==
    /\ CanWrap
    /\ \E p \in OwnedPtrs \cup {NULL} :
          Call("from_owned_ptr_or_panic", p, "none", 0, from_owned_ptr_or_panic(Begin, p))

Do_from_owned_ptr_or_err ==
    /\ CanWrap
    /\ \E p \in OwnedPtrs \cup {NULL} :
          Call("from_owned_ptr_or_err", p, "none", 0, from_owned_ptr_or_err(Begin, p))

Do_from_owned_ptr_or_opt ==
    /\ CanWrap
    /\ \E p \in OwnedPtrs \cup {NULL} :
          Call("from_owned_ptr_or_opt", p, "none", 0, from_owned_ptr_or_opt(Begin, p))

Do_from_borrowed_ptr ==
    /\ CanWrap
    /\ \E p \in {o \in LivePtrs : CanIncref(o)} :
          Call("from_borrowed_ptr", p, "none", 0, from_borrowed_ptr(Begin, p))

Do_from_borrowed_ptr_or_opt ==
    /\ CanWrap
    /\ \E p \in {o \in LivePtrs : CanIncref(o)} \cup {NULL} :
          Call("from_borrowed_ptr_or_opt", p, "none", 0, from_borrowed_ptr_or_opt(Begin, p))

Do_cast_from_owned_ptr ==
    /\ CanWrap
    /\ \E p \in OwnedPtrs \cup {NULL}, T \in Types :
          Call("cast_from_owned_ptr", p, T, 0, cast_from_owned_ptr(Begin, T, p))

Do_cast_from_borrowed_ptr ==
    /\ CanWrap
    /\ \E p \in {o \in LivePtrs : CanIncref(o)} \cup {NULL}, T \in Types :
          Call("cast_from_borrowed_ptr", p, T, 0, cast_from_borrowed_ptr(Begin, T, p))

Do_cast_from_owned_ptr_or_panic ==
    /\ CanWrap
    /\ \E p \in OwnedPtrs \cup {NULL}, T \in Types :
          Call("cast_from_owned_ptr_or_panic", p, T, 0,
               cast_from_owned_ptr_or_panic(Begin, T, p))

Do_cast_from_owned_ptr_or_err ==
    /\ CanWrap
    /\ \E p \in OwnedPtrs \cup {NULL}, T \in Types :
          Call("cast_from_owned_ptr_or_err", p, T, 0,
               cast_from_owned_ptr_or_err(Begin, T, p))

\* Only a live instance can be moved out of or dropped: a forgotten or dropped
\* one is no longer a value of the host program.
Do_into_ptr ==
    \E v \in LiveWrappers :
        Call("into_ptr", wr[v].ptr, "none", v, into_ptr(Begin, v))

Do_drop ==
    \E v \in LiveWrappers :
        Call("drop", wr[v].ptr, "none", v, drop(Begin, v))

\* The temporary `repr` takes a pyptr of its own while the call runs.  The
\* foreign runtime is asked to represent or stringify an object only while no
\* error is pending: the call may overwrite the slot.
Do_fmt_Debug ==
    /\ CanWrap
    /\ pending = EmptySlot
    /\ \E v \in LiveWrappers :
          Call("fmt_Debug", wr[v].ptr, "none", v, fmt_Debug(Begin, v))

Do_fmt_Display ==
    /\ CanWrap
    /\ pending = EmptySlot
    /\ \E v \in LiveWrappers :
          Call("fmt_Display", wr[v].ptr, "none", v, fmt_Display(Begin, v))

\* The accessors take &self: the instance stays with the caller.
Do_as_ptr ==
    \E v \in LiveWrappers :
        Call("as_ptr", wr[v].ptr, "none", v,
             {[Begin EXCEPT !.out = as_ptr(Begin, v), !.res = "ptr"]})

Do_get_refcnt ==
    \E v \in LiveWrappers :
        Call("get_refcnt", wr[v].ptr, "none", v,
             {[Begin EXCEPT !.val = get_refcnt(Begin, v), !.res = "usize"]})

Do_token ==
    \E v \in LiveWrappers :
        Call("token", wr[v].ptr, "none", v, {[Begin EXCEPT !.res = token(Begin, v)]})

\* `args` is a tuple the caller holds in a pyptr.
Do_stop_iteration ==
    \E v \in LiveWrappers :
        Call("stop_iteration", wr[v].ptr, "none", v, stop_iteration(Begin, v))

\* A foreign call fails: it returns null and leaves e in the pending-error slot.
ForeignCallFails ==
    /\ pending = EmptySlot
    /\ \E e \in Errs :
          Call("ffi_call_failed", NULL, "none", 0,
               {[Begin EXCEPT !.pending = [type |-> e, value |-> NULL]]})

\* new_utf8 is applied to a buffer and the offset a failed decoding reported
Do_new_utf8 ==
    /\ utf8.stage = "input"
    /\ \E o \in new_utf8(utf8.input, utf8.err) :
          utf8' = [utf8 EXCEPT !.stage = "done", !.call = o.call, !.res = o.res]
    /\ UNCHANGED <<refcnt, status, otype, raw, wr, pending, aborted, last, scen>>

\* no object, no pyptr, no error pending, no call made yet
Start ==
    /\ refcnt = [o \in Objs |-> 0]
    /\ status = [o \in Objs |-> "unalloc"]
    /\ otype = [o \in Objs |-> "none"]
    /\ raw = [o \in Objs |-> 0]
    /\ wr = [v \in Wids |-> Unused]
    /\ pending = EmptySlot
    /\ aborted = "no"
    /\ scen = NoScen
    /\ last = [op |-> "init", ptr |-> NULL, T |-> "none", w |-> 0,
               res |-> "none", err |-> "none", etype |-> "none",
               slotRead |-> FALSE, typeChecked |-> FALSE,
               incs |-> 0, decs |-> 0, out |-> NULL, outType |-> "none", val |-> 0,
               claimMoved |-> FALSE,
               ub |-> FALSE,
               rcBefore |-> 0, pendBefore |-> EmptySlot,
               seq |-> [op |-> "none", rc |-> 0]]

Init == Start /\ utf8 = Idle

\* every non-empty buffer with every offset below its length
Utf8Inputs ==
    {[Idle EXCEPT !.stage = "input", !.input = b, !.err = [valid_up_to |-> k]] :
        <<b, k>> \in {x \in Buffers \X (0..MaxLen - 1) : x[2] < Len(x[1])}}

InitUtf8 == Start /\ utf8 \in Utf8Inputs

NextUtf8 == Do_new_utf8

SpecUtf8 == InitUtf8 /\ [][NextUtf8]_vars

Next ==
    \/ Do_new
    \/ Do_from_owned_ptr
    \/ Do_from_owned_ptr_or_panic
    \/ Do_from_owned_ptr_or_err
    \/ Do_from_owned_ptr_or_opt
    \/ Do_from_borrowed_ptr
    \/ Do_from_borrowed_ptr_or_opt
    \/ Do_cast_from_owned_ptr
    \/ Do_cast_from_borrowed_ptr
    \/ Do_cast_from_owned_ptr_or_panic
    \/ Do_cast_from_owned_ptr_or_err
    \/ Do_into_ptr
    \/ Do_drop
    \/ ForeignCallFails

Spec == Init /\ [][Next]_vars

\* The calls that read or format a pyptr, over the heaps the plain constructors,
\* into_ptr and drop build.
NextObserve ==
    \/ Do_new
    \/ Do_from_owned_ptr
    \/ Do_from_borrowed_ptr
    \/ Do_into_ptr
    \/ Do_drop
    \/ ForeignCallFails
    \/ Do_fmt_Debug
    \/ Do_fmt_Display
    \/ Do_stop_iteration
    \/ Do_from_owned_ptr_or_err
    \/ Do_as_ptr
    \/ Do_get_refcnt
    \/ Do_token

SpecObserve == Init /\ [][NextObserve]_vars

\* ------------------------------------------------------------- the claims
LiveOn(o) == {v \in Wids : wr[v].state = "live" /\ wr[v].ptr = o}

\* the last call performed no Py_INCREF and no Py_DECREF
NoRefOp == last.incs = 0 /\ last.decs = 0

\* the last call returned normally
Returned == aborted = "no" /\ ~last.ub

\* the last call's pointer is an object whose dynamic type is no subtype of T
Mismatch == last.ptr # NULL /\ ~IsSubtype(otype[last.ptr], last.T)
Match == last.ptr # NULL /\ IsSubtype(otype[last.ptr], last.T)

\* the last call handed a null pointer to a constructor that type-checks it
\* unguarded (the undefined behaviour C8 is about)
NullCast ==
    /\ last.op \in {"cast_from_owned_ptr", "cast_from_borrowed_ptr",
                    "cast_from_owned_ptr_or_panic"}
    /\ last.ptr = NULL

\* C1: after any sequence of constructor calls, into_ptr calls and drops on
\* foreign objects (null going only to the constructors that test for it),
\* every live pyptr wraps a non-null pointer and holds exactly one claim: the
\* refcount of an object is the number of live instances on it plus the owned
\* raw pointers the caller holds, so at least the number of live instances and
\* at least 1 while there is one; and no instance has decremented twice.
C1_LiveWrappersHoldOneClaim ==
    ~NullCast =>
        /\ \A v \in Wids : wr[v].state = "live" => wr[v].ptr # NULL
        /\ \A o \in Objs : refcnt[o] = Cardinality(LiveOn(o)) + raw[o]
        /\ \A o \in Objs : refcnt[o] >= Cardinality(LiveOn(o))
        /\ \A o \in Objs : LiveOn(o) # {} => refcnt[o] >= 1 /\ status[o] = "live"
        /\ \A v \in Wids : wr[v].decs <= 1
        /\ \A v \in Wids : wr[v].state = "dropped" <=> wr[v].decs = 1

C1_Witness ==
    /\ last.op = "drop" /\ wr[last.w].state = "dropped" /\ wr[last.w].decs = 1
    /\ LiveOn(last.ptr) # {} /\ refcnt[last.ptr] = 1

\* C2: from_owned_ptr on a non-null pointer performs no increment, a drop
\* performs exactly one decrement, and a drop of the instance from_owned_ptr
\* has just made leaves the refcount at its value at construction minus one.
C2_OwnedThenDrop ==
    /\ last.op = "from_owned_ptr" =>
          /\ NoRefOp
          /\ refcnt[last.ptr] = last.rcBefore
          /\ wr[last.w].state = "live" /\ wr[last.w].ptr = last.ptr
    /\ last.op = "drop" /\ last.ptr # NULL =>
          /\ last.incs = 0 /\ last.decs = 1
          /\ refcnt[last.ptr] = last.rcBefore - 1
          /\ wr[last.w].state = "dropped" /\ wr[last.w].decs = 1
    /\ last.op = "drop" /\ last.seq.op = "from_owned_ptr" =>
          refcnt[last.ptr] = last.seq.rc - 1

C2_Witness ==
    /\ last.op = "drop" /\ last.seq.op = "from_owned_ptr"
    /\ last.decs = 1 /\ refcnt[last.ptr] = last.seq.rc - 1

\* C3: from_borrowed_ptr on a non-null pointer performs exactly one increment,
\* and a drop of the instance it has just made performs exactly one decrement
\* and leaves the refcount at its value before the construction.
C3_BorrowedThenDrop ==
    /\ last.op = "from_borrowed_ptr" =>
          /\ last.incs = 1 /\ last.decs = 0
          /\ refcnt[last.ptr] = last.rcBefore + 1
          /\ wr[last.w].state = "live" /\ wr[last.w].ptr = last.ptr
    /\ last.op = "drop" /\ last.seq.op = "from_borrowed_ptr" =>
          /\ last.incs = 0 /\ last.decs = 1
          /\ refcnt[last.ptr] = last.seq.rc

C3_Witness ==
    /\ last.op = "drop" /\ last.seq.op = "from_borrowed_ptr"
    /\ last.decs = 1 /\ refcnt[last.ptr] = last.seq.rc /\ last.seq.rc >= 1

\* C4: an or-error constructor given null returns Err of a Foreign Error Value
\* of the type the pending-error slot carried, leaves the slot empty, makes no
\* pyptr and performs no refcount operation.
C4_NullToErr ==
    last.op \in {"from_owned_ptr_or_err", "cast_from_owned_ptr_or_err"} /\ last.ptr = NULL =>
        /\ Returned
        /\ last.res = "Err" /\ last.err = "PyErr" /\ last.slotRead
        /\ last.pendBefore.type # "empty" => last.etype = last.pendBefore.type
        /\ pending = EmptySlot
        /\ NoRefOp /\ last.w = 0 /\ ~last.typeChecked

C4_Witness ==
    /\ last.op = "from_owned_ptr_or_err" /\ last.ptr = NULL
    /\ last.pendBefore.type = "KeyError" /\ last.etype = "KeyError"
    /\ pending = EmptySlot

\* C5: an or-none constructor given null returns None with no increment and no
\* decrement; given an object, from_borrowed_ptr_or_opt increments exactly once
\* and from_owned_ptr_or_opt does not increment.
C5_NullToNone ==
    /\ last.op \in {"from_owned_ptr_or_opt", "from_borrowed_ptr_or_opt"} /\ last.ptr = NULL =>
          /\ Returned /\ last.res = "None" /\ last.w = 0
          /\ NoRefOp /\ pending = last.pendBefore /\ ~last.slotRead
    /\ last.op = "from_borrowed_ptr_or_opt" /\ last.ptr # NULL =>
          /\ Returned /\ last.res = "Some"
          /\ last.incs = 1 /\ last.decs = 0 /\ refcnt[last.ptr] = last.rcBefore + 1
          /\ wr[last.w].state = "live" /\ wr[last.w].ptr = last.ptr
    /\ last.op = "from_owned_ptr_or_opt" /\ last.ptr # NULL =>
          /\ Returned /\ last.res = "Some"
          /\ NoRefOp /\ refcnt[last.ptr] = last.rcBefore
          /\ wr[last.w].state = "live" /\ wr[last.w].ptr = last.ptr

C5_Witness ==
    /\ last.op = "from_borrowed_ptr_or_opt" /\ last.ptr = NULL /\ last.res = "None"
    /\ \E o \in Objs : refcnt[o] >= 1

\* C6: cast_from_owned_ptr and cast_from_borrowed_ptr, given an object whose
\* dynamic type does not match, return a Downcast Failure Value, neither read
\* nor change the pending-error slot, perform no refcount operation, make no
\* pyptr and leave the caller's claim with the caller.
C6_MismatchIsDowncastError ==
    last.op \in {"cast_from_owned_ptr", "cast_from_borrowed_ptr"} /\ Mismatch =>
        /\ Returned
        /\ last.res = "Err" /\ last.err = "PyDowncastError"
        /\ pending = last.pendBefore /\ ~last.slotRead
        /\ NoRefOp /\ refcnt[last.ptr] = last.rcBefore
        /\ last.w = 0 /\ ~last.claimMoved

C6_Witness ==
    /\ last.op = "cast_from_owned_ptr" /\ Mismatch
    /\ last.err = "PyDowncastError" /\ raw[last.ptr] >= 1
    /\ pending.type # "empty"

\* C7: cast_from_owned_ptr, given an object whose dynamic type matches, returns
\* a pyptr whose as_ptr is the input pointer, the refcount unchanged.
C7_MatchWrapsSamePointer ==
    last.op = "cast_from_owned_ptr" /\ Match =>
        /\ Returned
        /\ last.res = "Ok" /\ last.w # 0 /\ wr[last.w].state = "live"
        /\ as_ptr(Begin, last.w) = last.ptr
        /\ NoRefOp /\ refcnt[last.ptr] = last.rcBefore

C7_Witness ==
    /\ last.op = "cast_from_owned_ptr" /\ Match /\ last.T = "str"
    /\ last.res = "Ok" /\ as_ptr(Begin, last.w) = last.ptr

\* C8: cast_from_owned_ptr_or_panic given null aborts through
\* panic_after_error before any type check is applied to the pointer, and does
\* not abort on an object of a mismatching type.
C8_NullAbortsBeforeTypeCheck ==
    /\ last.op = "cast_from_owned_ptr_or_panic" /\ last.ptr = NULL =>
          /\ aborted = "panic_after_error" /\ last.slotRead
          /\ ~last.typeChecked
    /\ last.op = "cast_from_owned_ptr_or_panic" /\ Mismatch =>
          aborted = "no"

\* C9: into_ptr returns the wrapped pointer and performs no decrement (the
\* instance is forgotten, not dropped), and wrapping that pointer again with
\* from_owned_ptr leaves the refcount what it was before the into_ptr.
C9_RoundTrip ==
    /\ last.op = "into_ptr" =>
          /\ Returned
          /\ last.out = last.ptr /\ last.out = wr[last.w].ptr
          /\ NoRefOp /\ refcnt[last.ptr] = last.rcBefore
          /\ wr[last.w].state = "forgotten" /\ wr[last.w].decs = 0
    /\ last.op = "from_owned_ptr" /\ last.seq.op = "into_ptr" =>
          /\ NoRefOp
          /\ refcnt[last.ptr] = last.rcBefore
          /\ refcnt[last.ptr] = last.seq.rc
          /\ wr[last.w].state = "live" /\ wr[last.w].ptr = last.ptr

C9_Witness ==
    /\ last.op = "from_owned_ptr" /\ last.seq.op = "into_ptr"
    /\ refcnt[last.ptr] = last.seq.rc /\ last.seq.rc >= 1

\* C10: an object at refcount 1 wrapped by from_owned_ptr stays at 1, a second
\* instance made by from_borrowed_ptr brings it to 2, dropping the borrowed
\* instance returns it to 1 and dropping the owned one brings it to 0; the count
\* reaches 0 only by the drop of the last instance, and no call acts on an
\* object whose count is 0.
C10_TwoWrappers ==
    /\ scen.step = 1 => refcnt[scen.obj] = 1
    /\ scen.step = 2 => refcnt[scen.obj] = 2
    /\ scen.step = 3 => refcnt[scen.obj] = 1
    /\ scen.step = 4 => refcnt[scen.obj] = 0 /\ status[scen.obj] = "freed"
    /\ \A o \in Objs : refcnt[o] = 0 => LiveOn(o) = {}
    /\ last.ptr # NULL /\ last.op # "init" =>
          /\ last.rcBefore >= 1
          /\ refcnt[last.ptr] = 0 => last.op = "drop" /\ last.rcBefore = 1

C10_Witness ==
    /\ scen.step = 4 /\ refcnt[scen.obj] = 0 /\ last.op = "drop"

\* C11: cast_from_owned_ptr_or_err keeps its two failures apart.  Given null it
\* returns the error fetched from the pending-error slot, which it clears, and
\* applies no type check.  Given an object of a mismatching type it returns the
\* downcast failure lifted into a PyErr (a TypeError built locally), neither
\* reads nor changes the slot, so an error pending before the call is still
\* pending after it and is not the error returned.
C11_TwoFailureShapes ==
    /\ last.op = "cast_from_owned_ptr_or_err" /\ last.ptr = NULL =>
          /\ Returned /\ last.res = "Err" /\ last.err = "PyErr"
          /\ last.slotRead /\ pending = EmptySlot
          /\ ~last.typeChecked /\ last.etype # "TypeError"
          /\ last.etype = IF last.pendBefore.type = "empty"
                          THEN "SystemError" ELSE last.pendBefore.type
    /\ last.op = "cast_from_owned_ptr_or_err" /\ Mismatch =>
          /\ Returned /\ last.res = "Err" /\ last.err = "PyErr"
          /\ last.typeChecked /\ last.etype = "TypeError"
          /\ ~last.slotRead /\ pending = last.pendBefore
          /\ last.etype # last.pendBefore.type
          /\ last.w = 0 /\ NoRefOp

C11_Witness ==
    /\ last.op = "cast_from_owned_ptr_or_err" /\ Mismatch
    /\ last.res = "Err" /\ last.etype = "TypeError"
    /\ pending.type = "ValueError" /\ last.pendBefore = pending

\* C12: the constructors that can fail and are not named or-panic return a
\* structured result (Ok or Err, Some or None) for every input pointer, null or
\* not, of a matching type or not: they never abort and never dereference or
\* wrap the null pointer.
C12_FallibleConstructorsReturn ==
    last.op \in {"from_owned_ptr_or_err", "from_owned_ptr_or_opt",
                 "from_borrowed_ptr_or_opt", "cast_from_owned_ptr",
                 "cast_from_borrowed_ptr", "cast_from_owned_ptr_or_err"} =>
        /\ aborted = "no" /\ ~last.ub
        /\ last.res \in {"Ok", "Err", "Some", "None"}
        /\ last.w # 0 => wr[last.w].ptr # NULL
        /\ last.ptr = NULL => NoRefOp

\* C13: from_owned_ptr_or_panic given null ends in the abort, reached through
\* panic_after_error (which consults the pending-error slot) and through nothing
\* else, with no refcount operation and no pyptr made; given an object it
\* returns a pyptr of that pointer without incrementing.
C13_NullPanicsAfterError ==
    /\ last.op = "from_owned_ptr_or_panic" /\ last.ptr = NULL =>
          /\ aborted = "panic_after_error" /\ last.slotRead
          /\ ~last.ub /\ ~last.typeChecked
          /\ NoRefOp /\ last.w = 0
    /\ last.op = "from_owned_ptr_or_panic" /\ last.ptr # NULL =>
          /\ Returned /\ ~last.slotRead
          /\ last.w # 0 /\ wr[last.w].state = "live" /\ wr[last.w].ptr = last.ptr
          /\ NoRefOp /\ refcnt[last.ptr] = last.rcBefore

C13_Witness ==
    /\ last.op = "from_owned_ptr_or_panic" /\ last.ptr = NULL
    /\ aborted = "panic_after_error" /\ last.pendBefore.type = "KeyError"
    /\ \E o \in Objs : refcnt[o] >= 1

\* C14: new_utf8, for a buffer of any length and a valid-up-to offset k below
\* that length, returns Ok or Err after one call of the general constructor
\* with encoding "utf-8", the buffer and its length as they are, the byte range
\* [k, k+1) (one byte, inside the buffer) and the reason "invalid utf-8".
C14_NewUtf8Range ==
    utf8.stage = "done" =>
        /\ utf8.res \in {"Ok", "Err"}
        /\ utf8.call.encoding = "utf-8"
        /\ utf8.call.reason = "invalid utf-8"
        /\ utf8.call.object = utf8.input /\ utf8.call.length = Len(utf8.input)
        /\ utf8.call.start = utf8.err.valid_up_to
        /\ utf8.call.end = utf8.err.valid_up_to + 1
        /\ utf8.call.end <= utf8.call.length

C14_Witness ==
    /\ utf8.stage = "done" /\ utf8.res = "Ok"
    /\ Len(utf8.input) = MaxLen /\ utf8.err.valid_up_to = 1
    /\ utf8.call.start = 1 /\ utf8.call.end = 2

\* C15: Debug and Display formatting of a pyptr never abort; they return the
\* formatting failure fmt::Error whenever the foreign represent or stringify
\* call returns null or an object that is no text; on every path the formatted
\* object keeps its refcount and its pyptr; and a text result is released
\* exactly once, a rejected result not at all.
C15_FmtFailsSoftly ==
    last.op \in {"fmt_Debug", "fmt_Display"} =>
        /\ Returned /\ last.res \in {"Ok", "Err"}
        /\ last.res = "Err" => last.err = "fmt::Error"
        /\ last.out = NULL \/ ~IsSubtype(last.outType, "str") =>
              last.res = "Err" /\ last.decs = 0
        /\ last.out # NULL /\ IsSubtype(last.outType, "str") => last.decs = 1
        /\ last.res = "Ok" => last.decs = 1 /\ IsSubtype(last.outType, "str")
        /\ last.incs = 0
        /\ refcnt[last.ptr] = last.rcBefore /\ status[last.ptr] = "live"
        /\ wr[last.w].state = "live" /\ wr[last.w].ptr = last.ptr
        /\ \A v \in Wids : v # last.w => wr[v].state # "forgotten"

C15_Witness ==
    /\ last.op = "fmt_Display" /\ last.res = "Ok"
    /\ last.out = last.ptr /\ last.decs = 1
    /\ refcnt[last.ptr] = last.rcBefore

\* the claim the pending-error slot holds on o
SlotOn(o) == IF pending.value = o THEN 1 ELSE 0

\* C16: stop_iteration(args) leaves the pending-error slot holding the type
\* StopIteration with the tuple args as its value, returns nothing and makes no
\* pyptr: the pyptr of args is gone and its claim has become the slot's, so
\* the tuple stays alive; and the next fetch returns that type and that tuple
\* and empties the slot.
C16_StopIterationSetsSlot ==
    /\ last.op = "stop_iteration" =>
          /\ Returned /\ last.res = "void" /\ last.out = NULL
          /\ pending = [type |-> "StopIteration", value |-> last.ptr]
          /\ wr[last.w].state = "dropped" /\ last.incs = 0 /\ last.decs = 1
          /\ \A v \in Wids : v # last.w /\ wr[v].state = "live" =>
                wr[v] = [state |-> "live", ptr |-> wr[v].ptr, decs |-> 0]
          /\ status[last.ptr] = "live"
          /\ refcnt[last.ptr] =
                last.rcBefore - (IF last.pendBefore.value = last.ptr THEN 1 ELSE 0)
    /\ \A o \in Objs : refcnt[o] = Cardinality(LiveOn(o)) + raw[o] + SlotOn(o)
    /\ last.op = "from_owned_ptr_or_err" /\ last.ptr = NULL
         /\ last.pendBefore.type = "StopIteration" =>
          /\ last.res = "Err" /\ last.etype = "StopIteration"
          /\ last.out = last.pendBefore.value /\ last.out # NULL
          /\ pending = EmptySlot /\ status[last.out] = "live"

C16_Witness ==
    /\ last.op = "from_owned_ptr_or_err" /\ last.ptr = NULL
    /\ last.pendBefore.type = "StopIteration"
    /\ last.etype = "StopIteration" /\ last.out = last.pendBefore.value
    /\ refcnt[last.out] = 1 /\ LiveOn(last.out) = {}

\* the live instances and the pointers they wrap
LiveSet == {<<v, wr[v].ptr>> : v \in LiveWrappers}

\* C17: a call of as_ptr, get_refcnt or token changes nothing: every refcount,
\* the heap, the raw pointers of the caller, the pending-error slot and the set
\* of live instances are after the call what they were before it; as_ptr
\* returns the pointer the instance wraps, which is the one it was made with
\* (no call changes the pointer of a live instance), and get_refcnt returns the
\* refcount the object has.
C17_AccessorsChangeNothing ==
    [][/\ last'.op \in {"as_ptr", "get_refcnt", "token"} =>
            /\ refcnt' = refcnt /\ status' = status /\ otype' = otype
            /\ raw' = raw /\ pending' = pending /\ aborted' = aborted
            /\ LiveSet' = LiveSet
            /\ ~last'.slotRead /\ last'.incs = 0 /\ last'.decs = 0
       /\ last'.op = "as_ptr" => last'.out = wr[last'.w].ptr
       /\ last'.op = "get_refcnt" =>
            last'.val = refcnt[last'.ptr] /\ last'.val = refcnt'[last'.ptr]
       /\ last'.op = "token" => last'.res = "Python"
       /\ \A v \in Wids : wr[v].state = "live" /\ wr'[v].state = "live" =>
            wr'[v].ptr = wr[v].ptr
      ]_vars

C17_Witness ==
    /\ last.op = "get_refcnt" /\ last.val = 2 /\ refcnt[last.ptr] = 2
    /\ Cardinality(LiveOn(last.ptr)) = 1 /\ pending.type = "KeyError"

\* what a constructor call does, apart from the shape of the value it returns
Effect(outs) ==
    {[refcnt |-> x.refcnt, status |-> x.status, otype |-> x.otype, raw |-> x.raw,
      wr |-> x.wr, pending |-> x.pending, aborted |-> x.aborted, w |-> x.w,
      incs |-> x.incs, decs |-> x.decs, slotRead |-> x.slotRead] : x \in outs}

\* C18: on a non-null pointer every null-aware constructor does what the plain
\* constructor of the same provenance does.  from_owned_ptr_or_panic,
\* from_owned_ptr_or_err, from_owned_ptr_or_opt, and cast_from_owned_ptr_or_err
\* on an object of a matching type, have the effect of from_owned_ptr;
\* from_borrowed_ptr_or_opt has the effect of from_borrowed_ptr: the same
\* instance on the same pointer, the same refcount, and the pending-error slot
\* neither read nor changed.
C18_NonNullAsPlain ==
    /\ CanWrap =>
          /\ \A p \in OwnedPtrs :
                LET plain == Effect(from_owned_ptr(Begin, p)) IN
                /\ Effect(from_owned_ptr_or_panic(Begin, p)) = plain
                /\ Effect(from_owned_ptr_or_err(Begin, p)) = plain
                /\ Effect(from_owned_ptr_or_opt(Begin, p)) = plain
                /\ \A T \in Types : IsSubtype(otype[p], T) =>
                      Effect(cast_from_owned_ptr_or_err(Begin, T, p)) = plain
                /\ \A x \in plain : x.pending = pending /\ ~x.slotRead
          /\ \A p \in {o \in LivePtrs : CanIncref(o)} :
                LET plain == Effect(from_borrowed_ptr(Begin, p)) IN
                /\ Effect(from_borrowed_ptr_or_opt(Begin, p)) = plain
                /\ \A x \in plain : x.pending = pending /\ ~x.slotRead
    /\ /\ last.op \in {"from_owned_ptr_or_panic", "from_owned_ptr_or_err",
                       "from_owned_ptr_or_opt", "from_borrowed_ptr_or_opt",
                       "cast_from_owned_ptr_or_err"}
       /\ last.ptr # NULL
       /\ last.op = "cast_from_owned_ptr_or_err" => Match
       => /\ Returned /\ ~last.slotRead /\ pending = last.pendBefore
          /\ last.w # 0 /\ wr[last.w].state = "live" /\ wr[last.w].ptr = last.ptr
          /\ last.decs = 0
          /\ last.incs = IF last.op = "from_borrowed_ptr_or_opt" THEN 1 ELSE 0
          /\ refcnt[last.ptr] = last.rcBefore + last.incs

C18_Witness ==
    /\ last.op = "cast_from_owned_ptr_or_err" /\ Match /\ last.T = "str"
    /\ last.res = "Ok" /\ wr[last.w].ptr = last.ptr
    /\ pending.type = "ValueError" /\ pending = last.pendBefore

====
